---- MODULE Spec2Model ----
(***************************************************************************)
(* STM32F411 SoC model: the RCC and flash-controller register files        *)
(* (hw/misc/stm32f4xx_rcc.c, the flash interface in src/unnamed/part_000), *)
(* and the SoC composition (stm32f411_soc_realize) with the interrupt      *)
(* wiring it builds.                                                       *)
(*                                                                         *)
(* A uint32_t is modelled as the set of its set bit positions (a subset of *)
(* 0..31): 0x80000000 does not fit a TLC integer.  |, & and ~ are union,   *)
(* intersection and complement in 0..31, a left shift moves the positions  *)
(* and drops those that leave the word.                                    *)
(***************************************************************************)
EXTENDS Integers, FiniteSets, Sequences, TLC

(***************************************************************************)
(* Bounds of the model.                                                    *)
(***************************************************************************)
\* Number of peripheral operations (read, write, reset, set_irq) in a run.
MaxOps == 2

(***************************************************************************)
(* 32-bit words.                                                           *)
(***************************************************************************)
WordBits == 0 .. 31

Pow2(n) == 2 ^ n

\* The bits of a small non-negative integer (an int that is or-ed into a word).
BitsOf(n) == {i \in 0 .. 30 : (n \div Pow2(i)) % 2 = 1}

\* The uint32_t with upper half hi and lower half lo (both 16-bit numbers).
Word(hi, lo) ==
    {i \in 0 .. 15 : (lo \div Pow2(i)) % 2 = 1}
        \cup {i + 16 : i \in {j \in 0 .. 15 : (hi \div Pow2(j)) % 2 = 1}}

Zero == {}

BIT(n) == {n}

\* ~w on a uint32_t
Not32(w) == WordBits \ w

\* w << n on a uint32_t
Shl32(w, n) == {i + n : i \in w} \cap WordBits

\* (uint32_t)val64
Cast32(val64) == val64 \cap WordBits

(***************************************************************************)
(* RCC register offsets (stm32f4xx_rcc.h).                                 *)
(***************************************************************************)
RCC_CR == \h00
RCC_PLLCFGR == \h04
RCC_CFGR == \h08
RCC_CIR == \h0C
RCC_AHB1RSTR == \h10
RCC_AHB2RSTR == \h14
RCC_APB1RSTR == \h20
RCC_APB2RSTR == \h24
RCC_AHB1ENR == \h30
RCC_AHB2ENR == \h34
RCC_APB1ENR == \h40
RCC_APB2ENR == \h44
RCC_AHB1LPENR == \h50
RCC_AHB2LPENR == \h54
RCC_APB1LPENR == \h60
RCC_APB2LPENR == \h64
RCC_BDCR == \h70
RCC_CSR == \h74
RCC_SSCGR == \h80
RCC_PLLI2SCFGR == \h84
RCC_DCKCFGR == \h8C

\* The register fields of STM32F4xxRccState (the reserved arrays are never
\* accessed) and the offset each is dispatched from.
RccOffsetOf ==
    [rcc_cr |-> RCC_CR, rcc_pllcfgr |-> RCC_PLLCFGR, rcc_cfgr |-> RCC_CFGR,
     rcc_cir |-> RCC_CIR, rcc_ahb1rstr |-> RCC_AHB1RSTR,
     rcc_ahb2rstr |-> RCC_AHB2RSTR, rcc_apb1rstr |-> RCC_APB1RSTR,
     rcc_apb2rstr |-> RCC_APB2RSTR, rcc_ahb1enr |-> RCC_AHB1ENR,
     rcc_ahb2enr |-> RCC_AHB2ENR, rcc_apb1enr |-> RCC_APB1ENR,
     rcc_apb2enr |-> RCC_APB2ENR, rcc_ahb1lpenr |-> RCC_AHB1LPENR,
     rcc_ahb2lpenr |-> RCC_AHB2LPENR, rcc_apb1lpenr |-> RCC_APB1LPENR,
     rcc_apb2lpenr |-> RCC_APB2LPENR, rcc_bdcr |-> RCC_BDCR,
     rcc_csr |-> RCC_CSR, rcc_sscgr |-> RCC_SSCGR,
     rcc_plli2scfgr |-> RCC_PLLI2SCFGR, rcc_dckcfgr |-> RCC_DCKCFGR]

RccRegs == DOMAIN RccOffsetOf

RccOffsets == {RccOffsetOf[r] : r \in RccRegs}

\* RccIrqEvents
RCC_IRQ_LSI_READY == 0
RCC_IRQ_LSE_READY == 1
RCC_IRQ_HSI_READY == 2
RCC_IRQ_HSE_READY == 3
RCC_IRQ_PLL_READY == 4
RCC_IRQ_PLLI2S_READY == 5
RCC_IRQ_CSS == 6
RCC_IRQ_COUNT == 7

RCC_CIR_ENABLE_BIT_OFFSET == 7

(***************************************************************************)
(* Flash interface register offsets (stm32f4xx_flash.h).                   *)
(***************************************************************************)
FLASH_ACR == \h00
FLASH_KEYR == \h04
FLASH_OPTKEYR == \h08
FLASH_SR == \h0C
FLASH_CR == \h10
FLASH_OPTCR == \h14
FLASH_OPTCR1 == \h18

FlashOffsetOf ==
    [flash_acr |-> FLASH_ACR, flash_keyr |-> FLASH_KEYR,
     flash_optkeyr |-> FLASH_OPTKEYR, flash_sr |-> FLASH_SR,
     flash_cr |-> FLASH_CR, flash_optcr |-> FLASH_OPTCR,
     flash_optcr1 |-> FLASH_OPTCR1]

FlashRegs == DOMAIN FlashOffsetOf

FlashOffsets == {FlashOffsetOf[r] : r \in FlashRegs}

\* memory_region_init_io(..., 0x400): the offsets the bus hands to a block.
MmioWindow == \h400

VARIABLES
    rcc,        \* STM32F4xxRccState: register field -> word
    flash,      \* STM32F4xxFlashState: register field -> word
    rcc_irq,    \* level of the RCC's output line s->irq
    flash_irq,  \* level of the flash interface's output line s->irq
    last,       \* the operation just completed and what it returned
    nops        \* number of peripheral operations performed

pvars == <<rcc, flash, rcc_irq, flash_irq, last, nops>>

VARIABLES
    pc,         \* position of stm32f411_soc_realize in its build sequence
    idx,        \* the loop counter i of the step at pc
    sysclk_src, \* clock_has_source(s->sysclk)
    refclk_src, \* clock_has_source(s->refclk)
    errp,       \* the error realize reported, "" when none
    mem,        \* memory regions added to system_memory (flash, alias, sram)
    realized,   \* devices realized so far
    mapped,     \* MMIO windows mapped so far: [name, base, size]
    wires,      \* interrupt connections made so far: [src, dst]
    or_levels,  \* the OR gate's recorded level of each input
    line,       \* level each followed device last drove on its output
    cpu_in      \* level of each CPU interrupt input

svars == <<pc, idx, sysclk_src, refclk_src, errp, mem, realized, mapped,
           wires, or_levels, line, cpu_in>>

vars == <<pvars, svars>>

(***************************************************************************)
(* qemu_irq_pulse(irq): qemu_set_irq(irq, 1) then qemu_set_irq(irq, 0).    *)
(* The levels driven on the line, in order; the line keeps the last one.   *)
(***************************************************************************)
qemu_irq_pulse == <<1, 0>>

\* The level of a line after a handler drove the levels of pulse on it.
LineAfter(level, pulse) == IF pulse = <<>> THEN level ELSE pulse[Len(pulse)]

(***************************************************************************)
(* RCC (src/hw/misc/stm32f4xx_rcc.c).                                      *)
(***************************************************************************)
\* The object is zero-filled when it is initialised; reset runs later.
RccConstructed == [r \in RccRegs |-> Zero]

stm32f4xx_rcc_reset(s) ==
    [s EXCEPT
        !.rcc_cr = Word(\h0000, \hFF81),
        !.rcc_pllcfgr = Word(\h2400, \h3010),
        !.rcc_cfgr = Word(\h0000, \h0000),
        !.rcc_cir = Word(\h0000, \h0000),
        !.rcc_ahb1rstr = Word(\h0000, \h0000),
        !.rcc_ahb2rstr = Word(\h0000, \h0000),
        !.rcc_apb1rstr = Word(\h0000, \h0000),
        !.rcc_apb2rstr = Word(\h0000, \h0000),
        !.rcc_ahb1enr = Word(\h0000, \h0000),
        !.rcc_ahb2enr = Word(\h0000, \h0000),
        !.rcc_apb1enr = Word(\h0000, \h0000),
        !.rcc_apb2enr = Word(\h0000, \h0000),
        !.rcc_ahb1lpenr = Word(\h0061, \h900F),
        !.rcc_ahb2lpenr = Word(\h0000, \h0080),
        !.rcc_apb1lpenr = Word(\h10E2, \hC80F),
        !.rcc_apb2lpenr = Word(\h0007, \h7930),
        !.rcc_bdcr = Word(\h0000, \h0000),
        !.rcc_csr = Word(\h0E00, \h0000),
        !.rcc_sscgr = Word(\h0000, \h0000),
        !.rcc_plli2scfgr = Word(\h2400, \h3000),
        !.rcc_dckcfgr = Word(\h0000, \h0000)]

\* Variant of RccIrqGate: the clock-security input is gated like the others.
RccIrqGate_NoCss(s, irq, level) ==
    /\ level # 0
    /\ (s.rcc_cir \cap BIT(irq + RCC_CIR_ENABLE_BIT_OFFSET)) # Zero

\* if (level) { if ((irq == RCC_IRQ_CSS) || (s->rcc_cir & BIT(irq + 7))) ... }
RccIrqGate(s, irq, level) ==
    /\ level # 0
    /\ \/ irq = RCC_IRQ_CSS
       \/ (s.rcc_cir \cap BIT(irq + RCC_CIR_ENABLE_BIT_OFFSET)) # Zero

\* Variant of RccIrqLatch: the latch assigns instead of or-ing.
RccIrqLatch_Assign(s, irq) == [s EXCEPT !.rcc_cir = BitsOf(irq)]

\* s->rcc_cir |= irq;
RccIrqLatch(s, irq) == [s EXCEPT !.rcc_cir = @ \cup BitsOf(irq)]

\* Variant of stm32f4xx_rcc_set_irq: the pulse sits inside if (level).
stm32f4xx_rcc_set_irq_PulseOnRaise(s, irq, level) ==
    [s |-> IF RccIrqGate(s, irq, level) THEN RccIrqLatch(s, irq) ELSE s,
     latched |-> RccIrqGate(s, irq, level),
     pulse |-> IF level # 0 THEN qemu_irq_pulse ELSE <<>>]

\* Variant of stm32f4xx_rcc_set_irq: the pulse sits inside the gated branch.
stm32f4xx_rcc_set_irq_PulseIfLatched(s, irq, level) ==
    [s |-> IF RccIrqGate(s, irq, level) THEN RccIrqLatch(s, irq) ELSE s,
     latched |-> RccIrqGate(s, irq, level),
     pulse |-> IF RccIrqGate(s, irq, level) THEN qemu_irq_pulse ELSE <<>>]

\* The whole handler: the state it leaves, whether the latch statement ran,
\* and the levels it drove on the output line.
stm32f4xx_rcc_set_irq(s, irq, level) ==
    [s |-> IF RccIrqGate(s, irq, level) THEN RccIrqLatch(s, irq) ELSE s,
     latched |-> RccIrqGate(s, irq, level),
     pulse |-> qemu_irq_pulse]

\* Variant of stm32f4xx_rcc_read: the offset is decoded by word, so a byte
\* inside a register reads that register.
stm32f4xx_rcc_read_ByWord(s, addr, size) ==
    LET a == addr - (addr % 4)
    IN  IF a \in RccOffsets
        THEN [ret |-> s[CHOOSE r \in RccRegs : RccOffsetOf[r] = a], log |-> 0]
        ELSE [ret |-> Zero, log |-> 1]

\* ret: the value returned; log: the qemu_log_mask(LOG_GUEST_ERROR) calls made.
stm32f4xx_rcc_read(s, addr, size) ==
    CASE addr = RCC_CR -> [ret |-> s.rcc_cr, log |-> 0]
      [] addr = RCC_PLLCFGR -> [ret |-> s.rcc_pllcfgr, log |-> 0]
      [] addr = RCC_CFGR -> [ret |-> s.rcc_cfgr, log |-> 0]
      [] addr = RCC_CIR -> [ret |-> s.rcc_cir, log |-> 0]
      [] addr = RCC_AHB1RSTR -> [ret |-> s.rcc_ahb1rstr, log |-> 0]
      [] addr = RCC_AHB2RSTR -> [ret |-> s.rcc_ahb2rstr, log |-> 0]
      [] addr = RCC_APB1RSTR -> [ret |-> s.rcc_apb1rstr, log |-> 0]
      [] addr = RCC_APB2RSTR -> [ret |-> s.rcc_apb2rstr, log |-> 0]
      [] addr = RCC_AHB1ENR -> [ret |-> s.rcc_ahb1enr, log |-> 0]
      [] addr = RCC_AHB2ENR -> [ret |-> s.rcc_ahb2enr, log |-> 0]
      [] addr = RCC_APB1ENR -> [ret |-> s.rcc_apb1enr, log |-> 0]
      [] addr = RCC_APB2ENR -> [ret |-> s.rcc_apb2enr, log |-> 0]
      [] addr = RCC_AHB1LPENR -> [ret |-> s.rcc_ahb1lpenr, log |-> 0]
      [] addr = RCC_AHB2LPENR -> [ret |-> s.rcc_ahb2lpenr, log |-> 0]
      [] addr = RCC_APB1LPENR -> [ret |-> s.rcc_apb1lpenr, log |-> 0]
      [] addr = RCC_APB2LPENR -> [ret |-> s.rcc_apb2lpenr, log |-> 0]
      [] addr = RCC_BDCR -> [ret |-> s.rcc_bdcr, log |-> 0]
      [] addr = RCC_CSR -> [ret |-> s.rcc_csr, log |-> 0]
      [] addr = RCC_SSCGR -> [ret |-> s.rcc_sscgr, log |-> 0]
      [] addr = RCC_PLLI2SCFGR -> [ret |-> s.rcc_plli2scfgr, log |-> 0]
      [] addr = RCC_DCKCFGR -> [ret |-> s.rcc_dckcfgr, log |-> 0]
      [] OTHER -> [ret |-> Zero, log |-> 1]

\* Variant of set_or_clear_if: the bits are set but never cleared.
set_or_clear_if_NoClear(value, mask, condition) ==
    IF condition # Zero THEN value \cup mask ELSE value

\* Set value with bits from mask if condition is true, clear otherwise.
set_or_clear_if(value, mask, condition) ==
    IF condition # Zero THEN value \cup mask ELSE value \cap Not32(mask)

handle_rcc_cr_write(rcc_cr) ==
    LET v1 == set_or_clear_if(rcc_cr, BIT(1), rcc_cr \cap BIT(0))
        v2 == set_or_clear_if(v1, BIT(17), v1 \cap BIT(16))
        v3 == set_or_clear_if(v2, BIT(25), v2 \cap BIT(24))
        v4 == set_or_clear_if(v3, BIT(27), v3 \cap BIT(26))
    IN  v4

\* Variant of handle_rcc_cfgr_write: the old status bits are not cleared.
handle_rcc_cfgr_write_NoMask(rcc_cfgr) ==
    rcc_cfgr \cup Shl32(rcc_cfgr \cap BitsOf(3), 2)

handle_rcc_cfgr_write(rcc_cfgr) ==
    LET sysclk_switch_status_offset == 2
        sysclk_switch_status_bits == Shl32(BitsOf(3), sysclk_switch_status_offset)
        sysclk_switch_bits == BitsOf(3)
        sysclk_switch == rcc_cfgr \cap sysclk_switch_bits
    IN  (rcc_cfgr \cap Not32(sysclk_switch_status_bits))
            \cup Shl32(sysclk_switch, sysclk_switch_status_offset)

\* s: the state the write leaves; log: the qemu_log_mask calls made.
\* Variant of RccCirStore: a clear bit (16 + k) of the written value clears
\* flag bit k, and the flag bits are not writable.
RccCirStore_ClearOnWrite(s, value) ==
    (value \ (0 .. 7))
        \cup {k \in s.rcc_cir \cap (0 .. 7) : (16 + k) \notin value}

\* s->rcc_cir = value;  (no flag is cleared by the clear bits)
RccCirStore(s, value) == value

stm32f4xx_rcc_write(s, addr, val64, size) ==
    LET value == Cast32(val64)
    IN  CASE addr = RCC_CR ->
               [s |-> [s EXCEPT !.rcc_cr = handle_rcc_cr_write(value)], log |-> 0]
          [] addr = RCC_PLLCFGR -> [s |-> [s EXCEPT !.rcc_pllcfgr = value], log |-> 0]
          [] addr = RCC_CFGR ->
               [s |-> [s EXCEPT !.rcc_cfgr = handle_rcc_cfgr_write(value)], log |-> 0]
          [] addr = RCC_CIR ->
               [s |-> [s EXCEPT !.rcc_cir = RccCirStore(s, value)], log |-> 0]
          [] addr = RCC_AHB1RSTR -> [s |-> [s EXCEPT !.rcc_ahb1rstr = value], log |-> 0]
          [] addr = RCC_AHB2RSTR -> [s |-> [s EXCEPT !.rcc_ahb2rstr = value], log |-> 0]
          [] addr = RCC_APB1RSTR -> [s |-> [s EXCEPT !.rcc_apb1rstr = value], log |-> 0]
          [] addr = RCC_APB2RSTR -> [s |-> [s EXCEPT !.rcc_apb2rstr = value], log |-> 0]
          [] addr = RCC_AHB1ENR -> [s |-> [s EXCEPT !.rcc_ahb1enr = value], log |-> 0]
          [] addr = RCC_AHB2ENR -> [s |-> [s EXCEPT !.rcc_ahb2enr = value], log |-> 0]
          [] addr = RCC_APB1ENR -> [s |-> [s EXCEPT !.rcc_apb1enr = value], log |-> 0]
          [] addr = RCC_APB2ENR -> [s |-> [s EXCEPT !.rcc_apb2enr = value], log |-> 0]
          [] addr = RCC_AHB1LPENR -> [s |-> [s EXCEPT !.rcc_ahb1lpenr = value], log |-> 0]
          [] addr = RCC_AHB2LPENR -> [s |-> [s EXCEPT !.rcc_ahb2lpenr = value], log |-> 0]
          [] addr = RCC_APB1LPENR -> [s |-> [s EXCEPT !.rcc_apb1lpenr = value], log |-> 0]
          [] addr = RCC_APB2LPENR -> [s |-> [s EXCEPT !.rcc_apb2lpenr = value], log |-> 0]
          [] addr = RCC_BDCR -> [s |-> [s EXCEPT !.rcc_bdcr = value], log |-> 0]
          [] addr = RCC_CSR -> [s |-> [s EXCEPT !.rcc_csr = value], log |-> 0]
          [] addr = RCC_SSCGR -> [s |-> [s EXCEPT !.rcc_sscgr = value], log |-> 0]
          [] addr = RCC_PLLI2SCFGR -> [s |-> [s EXCEPT !.rcc_plli2scfgr = value], log |-> 0]
          [] addr = RCC_DCKCFGR -> [s |-> [s EXCEPT !.rcc_dckcfgr = value], log |-> 0]
          [] OTHER -> [s |-> s, log |-> 1]

(***************************************************************************)
(* Flash interface (src/unnamed/part_000, second file).                    *)
(***************************************************************************)
FlashConstructed == [r \in FlashRegs |-> Zero]

\* Variant of stm32f4xx_flash_reset: the status register is not assigned.
stm32f4xx_flash_reset_KeepsSr(s) ==
    [s EXCEPT
        !.flash_acr = Word(\h0000, \h0000),
        !.flash_keyr = Word(\h0000, \h0000),
        !.flash_optkeyr = Word(\h0000, \h0000),
        !.flash_cr = Word(\h8000, \h0000),
        !.flash_optcr = Word(\h0FFF, \hAAED),
        !.flash_optcr1 = Word(\h0FFF, \h0000)]

stm32f4xx_flash_reset(s) ==
    [s EXCEPT
        !.flash_acr = Word(\h0000, \h0000),
        !.flash_keyr = Word(\h0000, \h0000),
        !.flash_optkeyr = Word(\h0000, \h0000),
        !.flash_sr = Word(\h0000, \h0000),
        !.flash_cr = Word(\h8000, \h0000),
        !.flash_optcr = Word(\h0FFF, \hAAED),
        !.flash_optcr1 = Word(\h0FFF, \h0000)]

\* Variant of stm32f4xx_flash_set_irq: the line is pulsed only when the
\* end-of-operation interrupt enable (bit 24 of FLASH_CR) is set.
stm32f4xx_flash_set_irq_Gated(s, irq, level) ==
    [s |-> s, latched |-> FALSE,
     pulse |-> IF 24 \in s.flash_cr THEN qemu_irq_pulse ELSE <<>>]

\* The gating code is commented out: the handler only pulses the line.
stm32f4xx_flash_set_irq(s, irq, level) ==
    [s |-> s, latched |-> FALSE, pulse |-> qemu_irq_pulse]

\* Variant of stm32f4xx_flash_read: the FLASH_SR case returns s->flash_cr.
stm32f4xx_flash_read_SrFromCr(s, addr, size) ==
    CASE addr = FLASH_ACR -> [ret |-> s.flash_acr, log |-> 0]
      [] addr = FLASH_KEYR -> [ret |-> s.flash_keyr, log |-> 0]
      [] addr = FLASH_OPTKEYR -> [ret |-> s.flash_optkeyr, log |-> 0]
      [] addr = FLASH_SR -> [ret |-> s.flash_cr, log |-> 0]
      [] addr = FLASH_CR -> [ret |-> s.flash_sr, log |-> 0]
      [] addr = FLASH_OPTCR -> [ret |-> s.flash_optcr, log |-> 0]
      [] addr = FLASH_OPTCR1 -> [ret |-> s.flash_optcr1, log |-> 0]
      [] OTHER -> [ret |-> Zero, log |-> 1]

stm32f4xx_flash_read(s, addr, size) ==
    CASE addr = FLASH_ACR -> [ret |-> s.flash_acr, log |-> 0]
      [] addr = FLASH_KEYR -> [ret |-> s.flash_keyr, log |-> 0]
      [] addr = FLASH_OPTKEYR -> [ret |-> s.flash_optkeyr, log |-> 0]
      [] addr = FLASH_SR -> [ret |-> s.flash_sr, log |-> 0]
      [] addr = FLASH_CR -> [ret |-> s.flash_sr, log |-> 0]
      [] addr = FLASH_OPTCR -> [ret |-> s.flash_optcr, log |-> 0]
      [] addr = FLASH_OPTCR1 -> [ret |-> s.flash_optcr1, log |-> 0]
      [] OTHER -> [ret |-> Zero, log |-> 1]

\* Variant of stm32f4xx_flash_write: an access of size bytes replaces the
\* low size bytes of the register and keeps the others.
stm32f4xx_flash_write_ByteMerge(s, addr, val64, size) ==
    IF addr \in FlashOffsets
    THEN LET r == CHOOSE q \in FlashRegs : FlashOffsetOf[q] = addr
             lanes == 0 .. (8 * size - 1)
         IN  [s |-> [s EXCEPT ![r] = (Cast32(val64) \cap lanes) \cup (@ \ lanes)],
              log |-> 0]
    ELSE [s |-> s, log |-> 1]

\* Variant of stm32f4xx_flash_write: the FLASH_CR case stores into flash_sr.
stm32f4xx_flash_write_CrIntoSr(s, addr, val64, size) ==
    LET value == Cast32(val64)
    IN  CASE addr = FLASH_ACR -> [s |-> [s EXCEPT !.flash_acr = value], log |-> 0]
          [] addr = FLASH_KEYR -> [s |-> [s EXCEPT !.flash_keyr = value], log |-> 0]
          [] addr = FLASH_OPTKEYR -> [s |-> [s EXCEPT !.flash_optkeyr = value], log |-> 0]
          [] addr = FLASH_SR -> [s |-> [s EXCEPT !.flash_sr = value], log |-> 0]
          [] addr = FLASH_CR -> [s |-> [s EXCEPT !.flash_sr = value], log |-> 0]
          [] addr = FLASH_OPTCR -> [s |-> [s EXCEPT !.flash_optcr = value], log |-> 0]
          [] addr = FLASH_OPTCR1 -> [s |-> [s EXCEPT !.flash_optcr1 = value], log |-> 0]
          [] OTHER -> [s |-> s, log |-> 1]

stm32f4xx_flash_write(s, addr, val64, size) ==
    LET value == Cast32(val64)
    IN  CASE addr = FLASH_ACR -> [s |-> [s EXCEPT !.flash_acr = value], log |-> 0]
          [] addr = FLASH_KEYR -> [s |-> [s EXCEPT !.flash_keyr = value], log |-> 0]
          [] addr = FLASH_OPTKEYR -> [s |-> [s EXCEPT !.flash_optkeyr = value], log |-> 0]
          [] addr = FLASH_SR -> [s |-> [s EXCEPT !.flash_sr = value], log |-> 0]
          [] addr = FLASH_CR -> [s |-> [s EXCEPT !.flash_cr = value], log |-> 0]
          [] addr = FLASH_OPTCR -> [s |-> [s EXCEPT !.flash_optcr = value], log |-> 0]
          [] addr = FLASH_OPTCR1 -> [s |-> [s EXCEPT !.flash_optcr1 = value], log |-> 0]
          [] OTHER -> [s |-> s, log |-> 1]

(***************************************************************************)
(* The persisted state: the fields of the VMStateDescription of each block, *)
(* in order.  Saving writes the listed fields' values in that order and     *)
(* loading assigns them to the listed fields of the receiving state.        *)
(***************************************************************************)
vmstate_stm32f4xx_rcc ==
    <<"rcc_cr", "rcc_pllcfgr", "rcc_cfgr", "rcc_cir", "rcc_ahb1rstr",
      "rcc_ahb2rstr", "rcc_apb1rstr", "rcc_apb2rstr", "rcc_ahb1enr",
      "rcc_ahb2enr", "rcc_apb1enr", "rcc_apb2enr", "rcc_ahb1lpenr",
      "rcc_ahb2lpenr", "rcc_apb1lpenr", "rcc_apb2lpenr", "rcc_bdcr",
      "rcc_csr", "rcc_sscgr", "rcc_plli2scfgr", "rcc_dckcfgr">>

\* Variant of vmstate_stm32f4xx_flash: the last register is not listed.
vmstate_stm32f4xx_flash_NoOptcr1 ==
    <<"flash_acr", "flash_keyr", "flash_optkeyr", "flash_sr", "flash_cr",
      "flash_optcr">>

vmstate_stm32f4xx_flash ==
    <<"flash_acr", "flash_keyr", "flash_optkeyr", "flash_sr", "flash_cr",
      "flash_optcr", "flash_optcr1">>

\* VMSTATE_UINT32(field, State): the field's value goes into the stream.
vmstate_save(s, fields) == [i \in DOMAIN fields |-> <<fields[i], s[fields[i]]>>]

\* The receiving state s with each saved field put back.
vmstate_load(s, saved) ==
    [r \in DOMAIN s |->
        IF \E i \in DOMAIN saved : saved[i][1] = r
        THEN saved[CHOOSE i \in DOMAIN saved : saved[i][1] = r][2]
        ELSE s[r]]

(***************************************************************************)
(* Inputs of the bus operations.                                           *)
(***************************************************************************)
\* Offsets inside the 0x400 window that no register is dispatched from
\* (a reserved word, a byte inside a register, the last word of the window).
RccBadOffsets == {\h01, \h18, \h3FC}

FlashBadOffsets == {\h01, \h1C, \h3FC}

AccessSizes == {1, 2, 4}

\* Values written to RCC_CR: enable bits 0, 16, 24, 26 alone and together,
\* with the ready bits 1, 17, 25, 27 clear or set, and unrelated bits.
CrVals ==
    {Word(\h0000, \h0000), Word(\h0000, \h0001), Word(\h0001, \h0000),
     Word(\h0100, \h0000), Word(\h0400, \h0000), Word(\h0501, \h0001),
     Word(\h0000, \h0002), Word(\h0002, \h0000), Word(\h0200, \h0000),
     Word(\h0800, \h0000), Word(\h0A02, \h0002), Word(\h0F03, \h0003),
     Word(\h0802, \h0001), Word(\h0100, \h0002), Word(\h8000, \hFF80),
     Word(\hFFFF, \hFFFF), Word(\hF0FC, \hFFFC), Word(\h0000, \hFF81)}

\* Values written to RCC_CFGR: every selection in bits 1:0, with bits 3:2
\* clear, set or mixed, and unrelated bits.
CfgrVals ==
    {Word(\h0000, \h0000), Word(\h0000, \h0001), Word(\h0000, \h0002),
     Word(\h0000, \h0003), Word(\h0000, \h000C), Word(\h0000, \h000D),
     Word(\h0000, \h000E), Word(\h0000, \h000F), Word(\h0000, \h0004),
     Word(\h0000, \h0009), Word(\h8000, \h00F2), Word(\hFFFF, \hFFFF)}

\* Values written to RCC_CIR: no enable bit, one, all of bits 7..13, all bits.
CirVals ==
    {Word(\h0000, \h0000), Word(\h0000, \h0100), Word(\h0000, \h3F80),
     Word(\h0000, \h1001), Word(\hFFFF, \hFFFF)}

GenVals == {Word(\hFFFF, \hFFFF), Word(\h8000, \h0001)}

RccWriteVals(addr) ==
    CASE addr = RCC_CR -> CrVals
      [] addr = RCC_CFGR -> CfgrVals
      [] addr = RCC_CIR -> CirVals
      [] OTHER -> GenVals

Levels == {0, 1}

(***************************************************************************)
(* The operations of the two register blocks.                              *)
(***************************************************************************)
NoOp ==
    [op |-> "none", addr |-> -1, val |-> Zero, ret |-> Zero, log |-> 0,
     irq |-> -1, level |-> 0, latched |-> FALSE, pulse |-> <<>>,
     region |-> <<>>, size |-> 0]

RccReset ==
    /\ nops < MaxOps
    /\ rcc' = stm32f4xx_rcc_reset(rcc)
    /\ last' = [NoOp EXCEPT !.op = "rcc_reset"]
    /\ nops' = nops + 1
    /\ UNCHANGED <<flash, rcc_irq, flash_irq>>
    /\ UNCHANGED svars

RccSetIrq ==
    /\ nops < MaxOps
    /\ \E irq \in 0 .. RCC_IRQ_COUNT - 1, level \in Levels :
          LET r == stm32f4xx_rcc_set_irq(rcc, irq, level)
          IN  /\ rcc' = r.s
              /\ rcc_irq' = LineAfter(rcc_irq, r.pulse)
              /\ last' = [NoOp EXCEPT !.op = "rcc_set_irq", !.irq = irq,
                                      !.level = level, !.latched = r.latched,
                                      !.pulse = r.pulse]
    /\ nops' = nops + 1
    /\ UNCHANGED <<flash, flash_irq>>
    /\ UNCHANGED svars

RccRead ==
    /\ nops < MaxOps
    /\ \E addr \in RccOffsets \cup RccBadOffsets, size \in AccessSizes :
          LET r == stm32f4xx_rcc_read(rcc, addr, size)
          IN  last' = [NoOp EXCEPT !.op = "rcc_read", !.addr = addr,
                                   !.ret = r.ret, !.log = r.log]
    /\ nops' = nops + 1
    /\ UNCHANGED <<rcc, flash, rcc_irq, flash_irq>>
    /\ UNCHANGED svars

RccWrite ==
    /\ nops < MaxOps
    /\ \E addr \in RccOffsets \cup RccBadOffsets, size \in AccessSizes :
          \E val64 \in RccWriteVals(addr) :
             LET r == stm32f4xx_rcc_write(rcc, addr, val64, size)
             IN  /\ rcc' = r.s
                 /\ last' = [NoOp EXCEPT !.op = "rcc_write", !.addr = addr,
                                         !.val = val64, !.log = r.log]
    /\ nops' = nops + 1
    /\ UNCHANGED <<flash, rcc_irq, flash_irq>>
    /\ UNCHANGED svars

\* Variant of FlashReset: the reset takes the access-control register from
\* the RCC's clock control register instead of the constant.
FlashReset_ReadsRcc ==
    /\ nops < MaxOps
    /\ flash' = [stm32f4xx_flash_reset(flash) EXCEPT !.flash_acr = rcc.rcc_cr]
    /\ last' = [NoOp EXCEPT !.op = "flash_reset"]
    /\ nops' = nops + 1
    /\ UNCHANGED <<rcc, rcc_irq, flash_irq>>
    /\ UNCHANGED svars

FlashReset ==
    /\ nops < MaxOps
    /\ flash' = stm32f4xx_flash_reset(flash)
    /\ last' = [NoOp EXCEPT !.op = "flash_reset"]
    /\ nops' = nops + 1
    /\ UNCHANGED <<rcc, rcc_irq, flash_irq>>
    /\ UNCHANGED svars

\* qdev_init_gpio_in(DEVICE(obj), stm32f4xx_flash_set_irq, 1): one input.
FlashSetIrq ==
    /\ nops < MaxOps
    /\ \E level \in Levels :
          LET r == stm32f4xx_flash_set_irq(flash, 0, level)
          IN  /\ flash' = r.s
              /\ flash_irq' = LineAfter(flash_irq, r.pulse)
              /\ last' = [NoOp EXCEPT !.op = "flash_set_irq", !.irq = 0,
                                      !.level = level, !.latched = r.latched,
                                      !.pulse = r.pulse]
    /\ nops' = nops + 1
    /\ UNCHANGED <<rcc, rcc_irq>>
    /\ UNCHANGED svars

FlashRead ==
    /\ nops < MaxOps
    /\ \E addr \in FlashOffsets \cup FlashBadOffsets, size \in AccessSizes :
          LET r == stm32f4xx_flash_read(flash, addr, size)
          IN  last' = [NoOp EXCEPT !.op = "flash_read", !.addr = addr,
                                   !.ret = r.ret, !.log = r.log]
    /\ nops' = nops + 1
    /\ UNCHANGED <<rcc, flash, rcc_irq, flash_irq>>
    /\ UNCHANGED svars

FlashWrite ==
    /\ nops < MaxOps
    /\ \E addr \in FlashOffsets \cup FlashBadOffsets, size \in AccessSizes :
          \E val64 \in GenVals :
             LET r == stm32f4xx_flash_write(flash, addr, val64, size)
             IN  /\ flash' = r.s
                 /\ last' = [NoOp EXCEPT !.op = "flash_write", !.addr = addr,
                                         !.val = val64, !.log = r.log]
    /\ nops' = nops + 1
    /\ UNCHANGED <<rcc, rcc_irq, flash_irq>>
    /\ UNCHANGED svars


(***************************************************************************)
(* Accesses of 1, 2 and 4 bytes.  The handlers are the .read and .write of *)
(* the MemoryRegionOps of each block; an access of size bytes carries a     *)
(* value of size bytes, zero-extended to the uint64_t parameter.            *)
(***************************************************************************)
\* The offsets accessed in each block: two registers and a byte inside one.
AccessOffsets(dev) ==
    IF dev = "rcc" THEN {RCC_CR, RCC_CFGR, \h01} ELSE {FLASH_SR, FLASH_CR, \h01}

\* The values an access of size bytes can carry.
AccessVals(size) ==
    {v \in {Word(\h0000, \h00A5), Word(\h0000, \hF00D), Word(\h8001, \h0001)} :
        v \subseteq 0 .. (8 * size - 1)}

AccessRead ==
    /\ nops < MaxOps
    /\ \E dev \in {"rcc", "flash_r"}, size \in AccessSizes :
          \E addr \in AccessOffsets(dev) :
             LET r == IF dev = "rcc"
                      THEN stm32f4xx_rcc_read(rcc, addr, size)
                      ELSE stm32f4xx_flash_read(flash, addr, size)
             IN  last' = [NoOp EXCEPT !.op = "access_read", !.addr = addr,
                                      !.ret = r.ret, !.log = r.log,
                                      !.region = <<dev, 0>>, !.size = size]
    /\ nops' = nops + 1
    /\ UNCHANGED <<rcc, flash, rcc_irq, flash_irq>>
    /\ UNCHANGED svars

AccessWrite ==
    /\ nops < MaxOps
    /\ \E dev \in {"rcc", "flash_r"}, size \in AccessSizes :
          \E addr \in AccessOffsets(dev), val64 \in AccessVals(size) :
             LET w == stm32f4xx_rcc_write(rcc, addr, val64, size)
                 f == stm32f4xx_flash_write(flash, addr, val64, size)
             IN  /\ rcc' = IF dev = "rcc" THEN w.s ELSE rcc
                 /\ flash' = IF dev = "rcc" THEN flash ELSE f.s
                 /\ last' = [NoOp EXCEPT
                                !.op = "access_write", !.addr = addr,
                                !.val = val64,
                                !.log = IF dev = "rcc" THEN w.log ELSE f.log,
                                !.region = <<dev, 0>>, !.size = size]
    /\ nops' = nops + 1
    /\ UNCHANGED <<rcc_irq, flash_irq>>
    /\ UNCHANGED svars

(***************************************************************************)
(* SoC composition (src/unnamed/part_000, first file).                     *)
(***************************************************************************)
RCC_ADDR == \h40023800
SYSCFG_ADDR == \h40013800
FLASH_R_ADDR == \h40023C00
usart_addr == <<\h40011000, \h40004400, \h40011400>>
timer_addr == <<\h40000000, \h40000400, \h40000800, \h40000C00>>
adc_addr == <<\h40012000>>
spi_addr == <<\h40003800, \h40003C00, \h40013000, \h40013400, \h40015000>>
EXTI_ADDR == \h40013C00

RCC_IRQ == 5
SYSCFG_IRQ == 71
FLASH_R_IRQ == 4
usart_irq == <<37, 38, 71>>
timer_irq == <<28, 29, 30, 50>>
ADC_IRQ == 18
spi_irq == <<35, 36, 51, 84, 85>>
exti_irq == <<6, 7, 8, 9, 10, 23, 23, 23, 23, 23, 40, 40, 40, 40, 40, 40>>

\* qdev_prop_set_uint32(armv7m, "num-irq", 100)
NumIrq == 100

\* The instance counts are set in stm32f411_soc.h; each loop of realize
\* indexes the table of its kind, so the count is the length of the table.
STM_NUM_USARTS == Len(usart_addr)
STM_NUM_TIMERS == Len(timer_addr)
STM_NUM_SPIS == Len(spi_addr)

\* The number of ADC instances sharing the OR gate.  The address table
\* names one ADC; the gate is built for STM_NUM_ADCS lines whatever the
\* count is.
STM_NUM_ADCS == 2

\* adc_addr[i] as the loop of realize reads it.  Past the one-element table
\* the read is out of bounds: the word found there is whatever the build
\* placed after the table, here the table's own word or the first word of
\* spi_addr, the table defined next.
adc_addr_read(i) ==
    IF i < Len(adc_addr) THEN {adc_addr[i + 1]} ELSE {adc_addr[1], spi_addr[1]}

\* for (i = 0; i < 16; i++): the EXTI lines
NumExtiLines == 16

\* Size of the MMIO window of the device models that realize maps but that
\* are defined elsewhere (SYSCFG, USART, timer, ADC, SPI, EXTI).
PeriphWindow == \h400

\* The create_unimplemented_device calls, in order: <<name, base, size>>.
UnimplementedDevices ==
    << <<"timer[7]", \h40001400, \h400>>,
       <<"timer[12]", \h40001800, \h400>>,
       <<"timer[6]", \h40001000, \h400>>,
       <<"timer[13]", \h40001C00, \h400>>,
       <<"timer[14]", \h40002000, \h400>>,
       <<"RTC and BKP", \h40002800, \h400>>,
       <<"WWDG", \h40002C00, \h400>>,
       <<"IWDG", \h40003000, \h400>>,
       <<"I2S2ext", \h40003000, \h400>>,
       <<"I2S3ext", \h40004000, \h400>>,
       <<"I2C1", \h40005400, \h400>>,
       <<"I2C2", \h40005800, \h400>>,
       <<"I2C3", \h40005C00, \h400>>,
       <<"CAN1", \h40006400, \h400>>,
       <<"CAN2", \h40006800, \h400>>,
       <<"PWR", \h40007000, \h400>>,
       <<"DAC", \h40007400, \h400>>,
       <<"timer[1]", \h40010000, \h400>>,
       <<"timer[8]", \h40010400, \h400>>,
       <<"SDIO", \h40012C00, \h400>>,
       <<"timer[9]", \h40014000, \h400>>,
       <<"timer[10]", \h40014400, \h400>>,
       <<"timer[11]", \h40014800, \h400>>,
       <<"GPIOA", \h40020000, \h400>>,
       <<"GPIOB", \h40020400, \h400>>,
       <<"GPIOC", \h40020800, \h400>>,
       <<"GPIOD", \h40020C00, \h400>>,
       <<"GPIOE", \h40021000, \h400>>,
       <<"GPIOF", \h40021400, \h400>>,
       <<"GPIOG", \h40021800, \h400>>,
       <<"GPIOH", \h40021C00, \h400>>,
       <<"GPIOI", \h40022000, \h400>>,
       <<"CRC", \h40023000, \h400>>,
       <<"BKPSRAM", \h40024000, \h400>>,
       <<"DMA1", \h40026000, \h400>>,
       <<"DMA2", \h40026400, \h400>>,
       <<"Ethernet", \h40028000, \h1400>>,
       <<"USB OTG HS", \h40040000, \h30000>>,
       <<"USB OTG FS", \h50000000, \h31000>>,
       <<"DCMI", \h50050000, \h400>>,
       <<"RNG", \h50060800, \h400>>
    >>

\* A mapped window.  kind is "device" for a modelled peripheral and "unimp"
\* for an unimplemented-device stub; name is <<type, instance>>, and for a
\* stub <<name, number of the call that created it>>.
Region(kind, name, base, size) ==
    [kind |-> kind, name |-> name, base |-> base, size |-> size]

\* An interrupt connection: output n of kind out ("irq": a sysbus IRQ,
\* "gpio": an unnamed GPIO output) of instance inst of device dev, to input
\* din of device ddev.
Wire(dev, inst, out, n, ddev, din) ==
    [src |-> [dev |-> dev, inst |-> inst, out |-> out, n |-> n],
     dst |-> [dev |-> ddev, n |-> din]]

\* Variant of AdcIrqDst: every ADC instance is connected to input 0.
AdcIrqDst_Line0(i) == [dev |-> "adc-orirq", n |-> 0]

\* sysbus_connect_irq(busdev, 0, qdev_get_gpio_in(DEVICE(&s->adc_irqs), i))
AdcIrqDst(i) == [dev |-> "adc-orirq", n |-> i]

\* Variant of OrIrqDst: the gate's output is connected to its own input 0.
OrIrqDst_Loop == [dev |-> "adc-orirq", n |-> 0]

\* qdev_connect_gpio_out(DEVICE(&s->adc_irqs), 0, qdev_get_gpio_in(armv7m, ADC_IRQ))
OrIrqDst == [dev |-> "cpu", n |-> ADC_IRQ]

\* Variant of ExtiIrqDst: every EXTI line has a CPU input of its own.
ExtiIrqDst_OwnInput(i) == [dev |-> "cpu", n |-> exti_irq[1] + i]

\* sysbus_connect_irq(busdev, i, qdev_get_gpio_in(armv7m, exti_irq[i]))
ExtiIrqDst(i) == [dev |-> "cpu", n |-> exti_irq[i + 1]]

(***************************************************************************)
(* The OR gate (TYPE_OR_IRQ): set_input(index, level) records the level    *)
(* and the output is the OR of the recorded levels.                        *)
(***************************************************************************)
or_irq_handler(levels, n, level) == [levels EXCEPT ![n] = level]

or_irq_level(levels) ==
    IF \E k \in DOMAIN levels : levels[k] # 0 THEN 1 ELSE 0

(***************************************************************************)
(* stm32f411_soc_realize, one action per step of the build sequence.  A    *)
(* step whose call can report an error either succeeds or returns with the *)
(* error set, leaving what the earlier steps built.                        *)
(***************************************************************************)
\* The step succeeded: realize goes on at position p with loop counter k.
Built(p, k, newmem, newdevs, newmaps, newwires) ==
    /\ pc' = p
    /\ idx' = k
    /\ mem' = mem \cup newmem
    /\ realized' = realized \cup newdevs
    /\ mapped' = mapped \cup newmaps
    /\ wires' = wires \cup newwires
    /\ UNCHANGED <<sysclk_src, errp, line, cpu_in>>
    /\ UNCHANGED pvars

\* error_setg / error_propagate, then return.
Failed(msg) ==
    /\ pc' = "failed"
    /\ errp' = msg
    /\ UNCHANGED <<idx, sysclk_src, refclk_src, mem, realized, mapped, wires,
                   or_levels, line, cpu_in>>
    /\ UNCHANGED pvars

\* Position after iteration idx of a loop of n iterations followed by next.
LoopPc(at, n, next) == IF idx + 1 < n THEN at ELSE next

LoopIdx(n) == IF idx + 1 < n THEN idx + 1 ELSE 0

\* The board code wires the SoC's clock inputs before it realizes the SoC.
BoardConnectSysclk ==
    /\ pc = "created"
    /\ ~sysclk_src
    /\ sysclk_src' = TRUE
    /\ UNCHANGED <<pc, idx, refclk_src, errp, mem, realized, mapped, wires,
                   or_levels, line, cpu_in>>
    /\ UNCHANGED pvars

BoardConnectRefclk ==
    /\ pc = "created"
    /\ ~refclk_src
    /\ refclk_src' = TRUE
    /\ UNCHANGED <<pc, idx, sysclk_src, errp, mem, realized, mapped, wires,
                   or_levels, line, cpu_in>>
    /\ UNCHANGED pvars

\* Variant of RealizeClocks without the check of sysclk.
RealizeClocks_NoSysclkCheck ==
    /\ pc = "created"
    /\ \/ /\ refclk_src
          /\ Failed("refclk clock must not be wired up by the board code")
       \/ /\ ~refclk_src
          /\ refclk_src' = TRUE
          /\ UNCHANGED or_levels
          /\ Built("flash", 0, {}, {}, {}, {})

RealizeClocks ==
    /\ pc = "created"
    /\ \/ /\ refclk_src
          /\ Failed("refclk clock must not be wired up by the board code")
       \/ /\ ~refclk_src
          /\ ~sysclk_src
          /\ Failed("sysclk clock must be wired up by the board code")
       \/ /\ ~refclk_src
          /\ sysclk_src
          /\ refclk_src' = TRUE
          /\ UNCHANGED or_levels
          /\ Built("flash", 0, {}, {}, {}, {})

RealizeFlashMemory ==
    /\ pc = "flash"
    /\ \/ Failed("memory_region_init_rom")
       \/ /\ Built("sram", 0, {"STM32F411.flash", "STM32F411.flash.alias"},
                   {}, {}, {})
          /\ UNCHANGED <<refclk_src, or_levels>>

RealizeSram ==
    /\ pc = "sram"
    /\ \/ Failed("memory_region_init_ram")
       \/ /\ Built("armv7m", 0, {"STM32F411.sram"}, {}, {}, {})
          /\ UNCHANGED <<refclk_src, or_levels>>

RealizeArmv7m ==
    /\ pc = "armv7m"
    /\ \/ Failed("armv7m")
       \/ /\ Built("rcc", 0, {}, {<<"armv7m", 0>>}, {}, {})
          /\ UNCHANGED <<refclk_src, or_levels>>

RealizeRcc ==
    /\ pc = "rcc"
    /\ \/ Failed("rcc")
       \/ /\ Built("syscfg", 0, {}, {<<"rcc", 0>>},
                   {Region("device", <<"rcc", 0>>, RCC_ADDR, MmioWindow)},
                   {Wire("rcc", 0, "irq", 0, "cpu", RCC_IRQ)})
          /\ UNCHANGED <<refclk_src, or_levels>>

RealizeSyscfg ==
    /\ pc = "syscfg"
    /\ \/ Failed("syscfg")
       \/ /\ Built("flash_r", 0, {}, {<<"syscfg", 0>>},
                   {Region("device", <<"syscfg", 0>>, SYSCFG_ADDR, PeriphWindow)},
                   {Wire("syscfg", 0, "irq", 0, "cpu", SYSCFG_IRQ)})
          /\ UNCHANGED <<refclk_src, or_levels>>

RealizeFlashR ==
    /\ pc = "flash_r"
    /\ \/ Failed("flash_r")
       \/ /\ Built("usart", 0, {}, {<<"flash_r", 0>>},
                   {Region("device", <<"flash_r", 0>>, FLASH_R_ADDR, MmioWindow)},
                   {Wire("flash_r", 0, "irq", 0, "cpu", FLASH_R_IRQ)})
          /\ UNCHANGED <<refclk_src, or_levels>>

RealizeUsart ==
    /\ pc = "usart"
    /\ \/ Failed("usart")
       \/ /\ Built(LoopPc("usart", STM_NUM_USARTS, "timer"),
                   LoopIdx(STM_NUM_USARTS), {}, {<<"usart", idx>>},
                   {Region("device", <<"usart", idx>>, usart_addr[idx + 1],
                           PeriphWindow)},
                   {Wire("usart", idx, "irq", 0, "cpu", usart_irq[idx + 1])})
          /\ UNCHANGED <<refclk_src, or_levels>>

RealizeTimer ==
    /\ pc = "timer"
    /\ \/ Failed("timer")
       \/ /\ Built(LoopPc("timer", STM_NUM_TIMERS, "adc_orirq"),
                   LoopIdx(STM_NUM_TIMERS), {}, {<<"timer", idx>>},
                   {Region("device", <<"timer", idx>>, timer_addr[idx + 1],
                           PeriphWindow)},
                   {Wire("timer", idx, "irq", 0, "cpu", timer_irq[idx + 1])})
          /\ UNCHANGED <<refclk_src, or_levels>>

\* The OR gate: created, "num-lines" set to STM_NUM_ADCS, realized, and its
\* output connected to the CPU's ADC_IRQ input.
RealizeAdcOrIrq ==
    /\ pc = "adc_orirq"
    /\ \/ Failed("adc-orirq: object_initialize_child_with_props")
       \/ Failed("adc-orirq: qdev_realize")
       \/ /\ Built("adc", 0, {}, {<<"adc-orirq", 0>>}, {},
                   {[src |-> [dev |-> "adc-orirq", inst |-> 0, out |-> "gpio",
                              n |-> 0],
                     dst |-> OrIrqDst]})
          /\ or_levels' = [k \in 0 .. STM_NUM_ADCS - 1 |-> 0]
          /\ UNCHANGED refclk_src

RealizeAdc ==
    /\ pc = "adc"
    /\ \/ Failed("adc")
       \/ /\ \E base \in adc_addr_read(idx) :
                Built(LoopPc("adc", STM_NUM_ADCS, "spi"), LoopIdx(STM_NUM_ADCS),
                      {}, {<<"adc", idx>>},
                      {Region("device", <<"adc", idx>>, base, PeriphWindow)},
                      {[src |-> [dev |-> "adc", inst |-> idx, out |-> "irq",
                                 n |-> 0],
                        dst |-> AdcIrqDst(idx)]})
          /\ UNCHANGED <<refclk_src, or_levels>>

RealizeSpi ==
    /\ pc = "spi"
    /\ \/ Failed("spi")
       \/ /\ Built(LoopPc("spi", STM_NUM_SPIS, "exti"), LoopIdx(STM_NUM_SPIS),
                   {}, {<<"spi", idx>>},
                   {Region("device", <<"spi", idx>>, spi_addr[idx + 1],
                           PeriphWindow)},
                   {Wire("spi", idx, "irq", 0, "cpu", spi_irq[idx + 1])})
          /\ UNCHANGED <<refclk_src, or_levels>>

\* EXTI: mapped, its 16 outputs connected to the CPU by exti_irq, and the 16
\* SYSCFG GPIO outputs connected to its inputs.
RealizeExti ==
    /\ pc = "exti"
    /\ \/ Failed("exti")
       \/ /\ Built("unimp", 0, {}, {<<"exti", 0>>},
                   {Region("device", <<"exti", 0>>, EXTI_ADDR, PeriphWindow)},
                   {[src |-> [dev |-> "exti", inst |-> 0, out |-> "irq",
                              n |-> k],
                     dst |-> ExtiIrqDst(k)] : k \in 0 .. NumExtiLines - 1}
                     \cup {Wire("syscfg", 0, "gpio", k, "exti", k) :
                               k \in 0 .. NumExtiLines - 1})
          /\ UNCHANGED <<refclk_src, or_levels>>

\* Variant of UnimpRegion: the stub covers the whole 4 KiB page its base
\* lies in.
UnimpRegion_WholePage(d, k) ==
    Region("unimp", <<d[1], k>>, d[2] - (d[2] % \h1000), \h1000)

\* The window call number k maps for d = <<name, base, size>>.
UnimpRegion(d, k) == Region("unimp", <<d[1], k>>, d[2], d[3])

\* create_unimplemented_device(name, base, size), call number idx.
CreateUnimplementedDevice ==
    /\ pc = "unimp"
    /\ Built(LoopPc("unimp", Len(UnimplementedDevices), "done"),
             LoopIdx(Len(UnimplementedDevices)), {}, {},
             {UnimpRegion(UnimplementedDevices[idx + 1], idx)}, {})
    /\ UNCHANGED <<refclk_src, or_levels>>

(***************************************************************************)
(* Interrupt propagation through the connections realize made.             *)
(***************************************************************************)
\* The destination the output src is connected to.
DstOf(src) == (CHOOSE w \in wires : w.src = src).dst

\* The interrupt outputs whose level changes are followed: the ADC
\* instances, the two devices connected to CPU input 71 (SYSCFG, USART6),
\* and the first and last EXTI output of each group that shares a CPU input
\* (5 and 9: input 23; 10 and 15: input 40).
Irq(dev, inst) == [dev |-> dev, inst |-> inst, out |-> "irq", n |-> 0]

ExtiOut(k) == [dev |-> "exti", inst |-> 0, out |-> "irq", n |-> k]

DrivenSources ==
    {Irq("adc", k) : k \in 0 .. STM_NUM_ADCS - 1}
        \cup {Irq("syscfg", 0), Irq("usart", 2)}
        \cup {ExtiOut(k) : k \in {5, 9, 10, 15}}

\* A device drives its interrupt output src to level: the level reaches the
\* input the output is connected to, and through the OR gate the CPU.
DeviceSetIrq ==
    /\ pc = "done"
    /\ \E src \in DrivenSources, level \in Levels :
          LET dst == DstOf(src)
          IN  /\ line' = [line EXCEPT ![src] = level]
              /\ IF dst.dev = "adc-orirq"
                 THEN LET levels == or_irq_handler(or_levels, dst.n, level)
                          out == DstOf([dev |-> "adc-orirq", inst |-> 0,
                                        out |-> "gpio", n |-> 0])
                      IN  /\ or_levels' = levels
                          /\ cpu_in' = [cpu_in EXCEPT
                                           ![out.n] = or_irq_level(levels)]
                 ELSE /\ cpu_in' = [cpu_in EXCEPT ![dst.n] = level]
                      /\ UNCHANGED or_levels
    /\ UNCHANGED <<pc, idx, sysclk_src, refclk_src, errp, mem, realized,
                   mapped, wires>>
    /\ UNCHANGED pvars

(***************************************************************************)
(* Bus accesses through the address map realize built.                     *)
(***************************************************************************)
\* The mapped windows that contain addr.
RegionsAt(addr) == {r \in mapped : r.base <= addr /\ addr < r.base + r.size}

\* A stub is mapped below every device (priority -1000): where a device
\* window and a stub overlap the device is addressed.  Between two windows
\* of the same priority either may be.
Resolve(addr) ==
    IF \E r \in RegionsAt(addr) : r.kind = "device"
    THEN {r \in RegionsAt(addr) : r.kind = "device"}
    ELSE RegionsAt(addr)

\* The stub's handlers: a read logs and returns 0, a write logs.
unimp_read(offset, size) == [ret |-> Zero, log |-> 1]

unimp_write(offset, value, size) == [log |-> 1]

\* The regions whose handlers are modelled.
Handled(r) == r.kind = "unimp" \/ r.name \in {<<"rcc", 0>>, <<"flash_r", 0>>}

\* The addresses accessed: the first and last byte of every stub window, and
\* two registers of each register block.
BusAddrs ==
    {UnimplementedDevices[k][2] : k \in DOMAIN UnimplementedDevices}
        \cup {UnimplementedDevices[k][2] + UnimplementedDevices[k][3] - 1 :
                  k \in DOMAIN UnimplementedDevices}
        \cup {RCC_ADDR + RCC_CR, RCC_ADDR + RCC_CIR,
              FLASH_R_ADDR + FLASH_SR, FLASH_R_ADDR + FLASH_CR}

\* The addresses written: the last byte of every stub window and the
\* registers.
BusWriteAddrs ==
    BusAddrs \ {UnimplementedDevices[k][2] : k \in DOMAIN UnimplementedDevices}

\* The accesses are word accesses; no handler looks at the size.
BusWidth == 4

\* The values written at addr: a stub ignores the value, so one value is
\* written to the stub windows and GenVals to the register blocks.
BusVals(addr) ==
    IF \E r \in Resolve(addr) : r.kind = "unimp"
    THEN {Word(\hFFFF, \hFFFF)}
    ELSE GenVals

BusRead ==
    /\ pc = "done"
    /\ nops < MaxOps
    /\ \E addr \in BusAddrs, size \in {BusWidth} :
          \E r \in Resolve(addr) :
             /\ Handled(r)
             /\ LET res == CASE r.kind = "unimp" -> unimp_read(addr - r.base, size)
                             [] r.name = <<"rcc", 0>> ->
                                  stm32f4xx_rcc_read(rcc, addr - r.base, size)
                             [] OTHER ->
                                  stm32f4xx_flash_read(flash, addr - r.base, size)
                IN  last' = [NoOp EXCEPT !.op = "bus_read", !.addr = addr,
                                         !.ret = res.ret, !.log = res.log,
                                         !.region = r.name]
    /\ nops' = nops + 1
    /\ UNCHANGED <<rcc, flash, rcc_irq, flash_irq>>
    /\ UNCHANGED svars

BusWrite ==
    /\ pc = "done"
    /\ nops < MaxOps
    /\ \E addr \in BusWriteAddrs, size \in {BusWidth} :
          \E val64 \in BusVals(addr), r \in Resolve(addr) :
             /\ Handled(r)
             /\ LET w == stm32f4xx_rcc_write(rcc, addr - r.base, val64, size)
                    f == stm32f4xx_flash_write(flash, addr - r.base, val64, size)
                    u == unimp_write(addr - r.base, val64, size)
                IN  /\ rcc' = IF r.name = <<"rcc", 0>> THEN w.s ELSE rcc
                    /\ flash' = IF r.name = <<"flash_r", 0>> THEN f.s ELSE flash
                    /\ last' = [NoOp EXCEPT
                                   !.op = "bus_write", !.addr = addr,
                                   !.val = val64,
                                   !.log = CASE r.kind = "unimp" -> u.log
                                             [] r.name = <<"rcc", 0>> -> w.log
                                             [] OTHER -> f.log,
                                   !.region = r.name]
    /\ nops' = nops + 1
    /\ UNCHANGED <<rcc_irq, flash_irq>>
    /\ UNCHANGED svars

(***************************************************************************)
(* Specifications.                                                         *)
(***************************************************************************)
Init ==
    /\ rcc = RccConstructed
    /\ flash = FlashConstructed
    /\ rcc_irq = 0
    /\ flash_irq = 0
    /\ last = NoOp
    /\ nops = 0
    /\ pc = "created"
    /\ idx = 0
    /\ sysclk_src = FALSE
    /\ refclk_src = FALSE
    /\ errp = ""
    /\ mem = {}
    /\ realized = {}
    /\ mapped = {}
    /\ wires = {}
    /\ or_levels = <<>>
    /\ line = [src \in DrivenSources |-> 0]
    /\ cpu_in = [k \in 0 .. NumIrq - 1 |-> 0]

\* The register blocks under bus accesses, interrupt inputs and resets.
Next ==
    \/ RccReset
    \/ RccSetIrq
    \/ RccRead
    \/ RccWrite
    \/ FlashReset
    \/ FlashSetIrq
    \/ FlashRead
    \/ FlashWrite

Spec == Init /\ [][Next]_vars

\* The composition of the SoC and the interrupt fabric it builds.
NextSoc ==
    \/ BoardConnectSysclk
    \/ BoardConnectRefclk
    \/ RealizeClocks
    \/ RealizeFlashMemory
    \/ RealizeSram
    \/ RealizeArmv7m
    \/ RealizeRcc
    \/ RealizeSyscfg
    \/ RealizeFlashR
    \/ RealizeUsart
    \/ RealizeTimer
    \/ RealizeAdcOrIrq
    \/ RealizeAdc
    \/ RealizeSpi
    \/ RealizeExti
    \/ CreateUnimplementedDevice
    \/ DeviceSetIrq

SpecSoc == Init /\ [][NextSoc]_vars

\* The composition of the SoC and bus accesses through its address map.
NextBus ==
    \/ BoardConnectSysclk
    \/ BoardConnectRefclk
    \/ RealizeClocks
    \/ RealizeFlashMemory
    \/ RealizeSram
    \/ RealizeArmv7m
    \/ RealizeRcc
    \/ RealizeSyscfg
    \/ RealizeFlashR
    \/ RealizeUsart
    \/ RealizeTimer
    \/ RealizeAdcOrIrq
    \/ RealizeAdc
    \/ RealizeSpi
    \/ RealizeExti
    \/ CreateUnimplementedDevice
    \/ BusRead
    \/ BusWrite

SpecBus == Init /\ [][NextBus]_vars

\* The register blocks under resets and accesses of each size.
NextAccess ==
    \/ RccReset
    \/ FlashReset
    \/ AccessRead
    \/ AccessWrite

SpecAccess == Init /\ [][NextAccess]_vars

(***************************************************************************)
(* Properties.                                                             *)
(***************************************************************************)
\* What the next read of a register offset returns in the current state.
RccReadBack(addr) == stm32f4xx_rcc_read(rcc, addr, 4).ret

FlashReadBack(addr) == stm32f4xx_flash_read(flash, addr, 4).ret

\* <<enable bit, ready bit>> of RCC_CR: HSI, HSE, PLL, PLLI2S.
CrPairs == {<<0, 1>>, <<16, 17>>, <<24, 25>>, <<26, 27>>}

CrReadyBits == {p[2] : p \in CrPairs}

\* C1: after a write of V to RCC_CR (offset 0x00), from any state, the next
\* read of RCC_CR has each ready bit (1, 17, 25, 27) equal to the paired
\* enable bit (0, 16, 24, 26) of V, whatever V's ready bits were, and every
\* other bit equal to the bit of V.
C1_CrWriteDerivesReady ==
    (last.op = "rcc_write" /\ last.addr = RCC_CR) =>
        /\ \A p \in CrPairs : (p[2] \in RccReadBack(RCC_CR)) <=> (p[1] \in last.val)
        /\ \A b \in WordBits \ CrReadyBits :
              (b \in RccReadBack(RCC_CR)) <=> (b \in last.val)

\* A write to RCC_CR of a value with HSION set and HSIRDY clear, and with
\* HSERDY set and HSEON clear, over a register that held something else.
C1_Witness ==
    /\ last.op = "rcc_write"
    /\ last.addr = RCC_CR
    /\ 0 \in last.val /\ 1 \notin last.val
    /\ 17 \in last.val /\ 16 \notin last.val
    /\ nops = 2

\* C2: after a write of V to RCC_CFGR (offset 0x08), the next read of
\* RCC_CFGR has bits 3:2 equal to bits 1:0 of V and every other bit,
\* bits 1:0 included, equal to the bit of V.
C2_CfgrWriteDerivesStatus ==
    (last.op = "rcc_write" /\ last.addr = RCC_CFGR) =>
        /\ (2 \in RccReadBack(RCC_CFGR)) <=> (0 \in last.val)
        /\ (3 \in RccReadBack(RCC_CFGR)) <=> (1 \in last.val)
        /\ \A b \in WordBits \ {2, 3} :
              (b \in RccReadBack(RCC_CFGR)) <=> (b \in last.val)

\* A write to RCC_CFGR whose bits 3:2 (11) differ from its bits 1:0 (01).
C2_Witness ==
    /\ last.op = "rcc_write"
    /\ last.addr = RCC_CFGR
    /\ last.val \cap {0, 1, 2, 3} = {0, 2, 3}

\* C3 as stated: after write(FLASH_CR, X) a read of FLASH_SR returns X.
C3_SrReadsCr ==
    (last.op = "flash_write" /\ last.addr = FLASH_CR) =>
        FlashReadBack(FLASH_SR) = last.val

\* C3, amended: a write of X to FLASH_CR stores X in the control register
\* and leaves the status register alone: the read of FLASH_SR that follows
\* returns the value the status register held before the write, whether or
\* not that value is X.
C3_SrReadsOwnValue ==
    [][(last'.op = "flash_write" /\ last'.addr = FLASH_CR) =>
          /\ flash'.flash_cr = last'.val
          /\ stm32f4xx_flash_read(flash', FLASH_SR, 4)
                = [ret |-> flash.flash_sr, log |-> 0]]_vars

\* write(FLASH_SR, Y) then write(FLASH_CR, X) with X # Y.
C3_Witness ==
    /\ last.op = "flash_write"
    /\ last.addr = FLASH_CR
    /\ flash.flash_cr = last.val
    /\ flash.flash_sr # Zero
    /\ flash.flash_sr # last.val

\* The constants reset() assigns.
RccResetValue == stm32f4xx_rcc_reset(RccConstructed)

FlashResetValue == stm32f4xx_flash_reset(FlashConstructed)

\* C4: right after reset(), from any state, a read of each register's
\* offset returns the constant reset() assigns to it (21 RCC registers,
\* 7 flash registers).
C4_ResetValuesReadBack ==
    /\ last.op = "rcc_reset" =>
          \A r \in RccRegs : RccReadBack(RccOffsetOf[r]) = RccResetValue[r]
    /\ last.op = "flash_reset" =>
          \A r \in FlashRegs : FlashReadBack(FlashOffsetOf[r]) = FlashResetValue[r]

\* C5: a read at an offset of the window that is no register returns 0, and
\* a read or a write there makes exactly one diagnostic and changes no
\* register of either block.
C5_UnknownOffset ==
    [][(\/ last'.op \in {"rcc_read", "rcc_write"} /\ last'.addr \notin RccOffsets
        \/ last'.op \in {"flash_read", "flash_write"}
              /\ last'.addr \notin FlashOffsets)
          => /\ last'.log = 1
             /\ last'.ret = Zero
             /\ rcc' = rcc
             /\ flash' = flash]_vars

\* A read inside RCC_CR (offset 0x01) while RCC_CR holds a non-zero value.
C5_Witness ==
    /\ last.op = "rcc_read"
    /\ last.addr = 1
    /\ last.addr \in 0 .. MmioWindow - 1
    /\ rcc.rcc_cr # Zero
    /\ last.log = 1

\* C6: a raise of RCC input irq runs the latch statement on RCC_CIR always
\* for the clock-security input (RCC_IRQ_CSS), and for any other input if
\* and only if bit irq + 7 of RCC_CIR is set; when the gate is closed the
\* registers are left unchanged.
C6_IrqGate ==
    [][(last'.op = "rcc_set_irq" /\ last'.level # 0) =>
          LET irq == last'.irq
              enabled == (irq + 7) \in rcc.rcc_cir
          IN  /\ last'.latched <=> (irq = RCC_IRQ_CSS \/ enabled)
              /\ last'.latched => rcc' = RccIrqLatch(rcc, irq)
              /\ ~last'.latched => rcc' = rcc]_vars

\* RCC_IRQ_LSE_READY raised with its enable bit (8) set: latched.
C6_Witness ==
    /\ last.op = "rcc_set_irq"
    /\ last.level = 1
    /\ last.irq = RCC_IRQ_LSE_READY
    /\ last.latched
    /\ rcc.rcc_cir \cap {0, 8} = {0, 8}

\* C7: every raise of an RCC input, latched or not, drives the output line
\* high then low within the handler, once; the line is low in every state
\* between operations.
C7_AlwaysPulses ==
    /\ rcc_irq = 0
    /\ (last.op = "rcc_set_irq" /\ last.level # 0) => last.pulse = <<1, 0>>

\* A raise that the gate suppressed.
C7_Witness ==
    /\ last.op = "rcc_set_irq"
    /\ last.level = 1
    /\ ~last.latched
    /\ last.pulse = <<1, 0>>

\* The OR of the levels the ADC instances last drove.
AdcOr == IF \E k \in 0 .. STM_NUM_ADCS - 1 : line[Irq("adc", k)] # 0 THEN 1 ELSE 0

\* C8: once the SoC is built, CPU input 18 (ADC_IRQ) is the OR of the levels
\* last set on the OR gate's inputs, which are the levels the ADC instances
\* last drove; no ADC output is connected to a CPU input, and only the gate
\* is connected to input 18.
C8_AdcOrGate ==
    /\ pc = "done" =>
          /\ DOMAIN or_levels = 0 .. STM_NUM_ADCS - 1
          /\ \A k \in 0 .. STM_NUM_ADCS - 1 : or_levels[k] = line[Irq("adc", k)]
          /\ cpu_in[ADC_IRQ] = AdcOr
    /\ \A w \in wires :
          /\ w.src.dev = "adc" => w.dst = [dev |-> "adc-orirq", n |-> w.src.inst]
          /\ w.dst = [dev |-> "cpu", n |-> ADC_IRQ] => w.src.dev = "adc-orirq"

\* Source 1 alone is high and input 18 is high.
C8_Witness ==
    /\ pc = "done"
    /\ line[Irq("adc", 1)] = 1
    /\ line[Irq("adc", 0)] = 0
    /\ cpu_in[ADC_IRQ] = 1

\* C9: in every state from reset on, each ready bit of RCC_CR equals its
\* enable bit and bits 3:2 of RCC_CFGR equal bits 1:0.
C9_DerivedBitsConsistent ==
    /\ \A p \in CrPairs : (p[2] \in rcc.rcc_cr) <=> (p[1] \in rcc.rcc_cr)
    /\ (2 \in rcc.rcc_cfgr) <=> (0 \in rcc.rcc_cfgr)
    /\ (3 \in rcc.rcc_cfgr) <=> (1 \in rcc.rcc_cfgr)

\* C10: the windows [base, base + size) of the mapped regions, modelled
\* peripherals and unimplemented-device stubs, are pairwise disjoint.
C10_WindowsDisjoint ==
    \A a, b \in mapped :
        a # b => (a.base + a.size <= b.base \/ b.base + b.size <= a.base)

\* C11: when realize has returned with an error, the error is set and
\* nothing the earlier steps built remains: no region is in the system
\* memory, no window is mapped and no interrupt output is connected.
C11_RealizeAtomic ==
    pc = "failed" =>
        /\ errp # ""
        /\ mem = {}
        /\ mapped = {}
        /\ wires = {}

\* The connections of the EXTI's outputs.
ExtiWires == {w \in wires : w.src.dev = "exti" /\ w.src.out = "irq"}

\* C12 as stated: once the EXTI is wired, each of its 16 outputs has exactly
\* one destination and no destination is shared by two outputs.
C12_ExtiBijection ==
    <<"exti", 0>> \in realized =>
        /\ \A k \in 0 .. NumExtiLines - 1 :
              Cardinality({w \in ExtiWires : w.src.n = k}) = 1
        /\ \A a, b \in ExtiWires : a.dst = b.dst => a = b

\* C12, amended: each of the 16 outputs has exactly one destination, a CPU
\* input, but the table is many-to-one: outputs 0..4 have CPU inputs 6..10,
\* one each, outputs 5..9 share CPU input 23 and outputs 10..15 share CPU
\* input 40; seven CPU inputs receive the 16 outputs.
C12_ExtiManyToOne ==
    <<"exti", 0>> \in realized =>
        /\ \A k \in 0 .. NumExtiLines - 1 :
              Cardinality({w \in ExtiWires : w.src.n = k}) = 1
        /\ \A w \in ExtiWires :
              /\ w.dst.dev = "cpu"
              /\ w.src.n \in 0 .. 4 => w.dst.n = 6 + w.src.n
              /\ w.src.n \in 5 .. 9 => w.dst.n = 23
              /\ w.src.n \in 10 .. 15 => w.dst.n = 40
        /\ Cardinality({w.dst : w \in ExtiWires}) = 7

\* The EXTI is wired, and its outputs 5 and 9 have the same destination.
C12_Witness ==
    /\ <<"exti", 0>> \in realized
    /\ \E a, b \in ExtiWires :
          a.src.n = 5 /\ b.src.n = 9 /\ a.dst = b.dst /\ a.dst.n = 23

\* C13: every raise of the flash controller's interrupt input drives the
\* output line high then low, whatever the registers hold, leaves the line
\* low, and changes no flash register.
C13_FlashAlwaysPulses ==
    [][(last'.op = "flash_set_irq" /\ last'.level # 0) =>
          /\ last'.pulse = <<1, 0>>
          /\ flash_irq' = 0
          /\ flash' = flash]_vars

\* A raise while FLASH_CR holds no enable bit and another register is set.
C13_Witness ==
    /\ last.op = "flash_set_irq"
    /\ last.level = 1
    /\ last.pulse = <<1, 0>>
    /\ flash.flash_cr = Zero
    /\ flash.flash_acr # Zero

\* The register at a defined offset.
RccRegAt(addr) == CHOOSE r \in RccRegs : RccOffsetOf[r] = addr

FlashRegAt(addr) == CHOOSE r \in FlashRegs : FlashOffsetOf[r] = addr

\* C14: after a write of V to a plain register (any RCC register but RCC_CR
\* and RCC_CFGR, any flash register but FLASH_SR) the register holds V and
\* the next read of the same offset returns V.
C14_PlainWriteReadBack ==
    /\ (last.op = "rcc_write" /\ last.addr \in RccOffsets \ {RCC_CR, RCC_CFGR}) =>
          /\ rcc[RccRegAt(last.addr)] = last.val
          /\ RccReadBack(last.addr) = last.val
    /\ (last.op = "flash_write" /\ last.addr \in FlashOffsets \ {FLASH_SR}) =>
          /\ flash[FlashRegAt(last.addr)] = last.val
          /\ FlashReadBack(last.addr) = last.val

\* C15: a read of any RCC offset changes no register and no line, and a
\* second read of the same offset returns the same value; a write of V to
\* RCC_CIR leaves V in RCC_CIR, flag bits 0..7 and clear bits 16..23
\* included, and changes no other register.
C15_ReadsPureCirVerbatim ==
    [][/\ last'.op = "rcc_read" =>
             /\ rcc' = rcc
             /\ flash' = flash
             /\ rcc_irq' = rcc_irq
             /\ stm32f4xx_rcc_read(rcc', last'.addr, 4).ret = last'.ret
       /\ (last'.op = "rcc_write" /\ last'.addr = RCC_CIR) =>
             /\ rcc' = [rcc EXCEPT !.rcc_cir = last'.val]
             /\ stm32f4xx_rcc_read(rcc', RCC_CIR, 4).ret = last'.val]_vars

\* RCC_CIR holds flags and is written with a value that has the clear bit
\* (16) of a flag (bit 0) it also carries; the flag is still set.
C15_Witness ==
    /\ last.op = "rcc_write"
    /\ last.addr = RCC_CIR
    /\ {0, 16} \subseteq last.val
    /\ 0 \in rcc.rcc_cir
    /\ nops = 2

\* C16: a reset of the RCC (of the flash controller), taken in any state,
\* leaves the 21 (7) registers at the reset constants whatever they held,
\* and a further reset changes nothing: reset(reset(s)) = reset(s).
C16_ResetIdempotent ==
    [][/\ last'.op = "rcc_reset" =>
             /\ rcc' = RccResetValue
             /\ stm32f4xx_rcc_reset(rcc') = rcc'
             /\ last.op = "rcc_reset" => rcc' = rcc
       /\ last'.op = "flash_reset" =>
             /\ flash' = FlashResetValue
             /\ stm32f4xx_flash_reset(flash') = flash'
             /\ last.op = "flash_reset" => flash' = flash]_vars

\* A flash reset as the second operation, after a reset of the RCC or a
\* write to it: both blocks hold their reset constants or a written value.
C16_Witness ==
    /\ last.op = "flash_reset"
    /\ nops = 2
    /\ flash = FlashResetValue
    /\ rcc # RccConstructed

\* addr lies in the window of an unimplemented-device stub.
InStub(addr) == \E r \in RegionsAt(addr) : r.kind = "unimp"

\* C17: a read or a write at an address inside a stub window returns 0 (a
\* read), makes one diagnostic, leaves the SoC running, and leaves every
\* register of the RCC and of the flash controller unchanged.
C17_StubAccessBenign ==
    [][(last'.op \in {"bus_read", "bus_write"} /\ InStub(last'.addr)) =>
          /\ last'.ret = Zero
          /\ last'.log = 1
          /\ pc' = "done"
          /\ rcc' = rcc
          /\ flash' = flash]_vars

\* A write to the last byte of the CRC stub, the window below the RCC's,
\* while the RCC holds a written value.
C17_Witness ==
    /\ last.op = "bus_write"
    /\ last.addr = \h400233FF
    /\ last.region[1] = "CRC"
    /\ last.log = 1
    /\ rcc.rcc_cir # Zero

\* The fields a field list names.
FieldSet(fields) == {fields[i] : i \in DOMAIN fields}

\* The registers each handler handles: reset assigns the register whatever
\* it held, a write at the register's offset stores into it, and a read at
\* the register's offset is decoded (no bad-offset diagnostic).
AllZero(regs) == [r \in regs |-> Zero]

AllOnes(regs) == [r \in regs |-> WordBits]

RccResetRegs ==
    {r \in RccRegs : stm32f4xx_rcc_reset(AllZero(RccRegs))[r]
                         = stm32f4xx_rcc_reset(AllOnes(RccRegs))[r]}

RccWriteRegs ==
    {r \in RccRegs :
        stm32f4xx_rcc_write(AllZero(RccRegs), RccOffsetOf[r], WordBits, 4).s[r] # Zero}

RccReadRegs ==
    {r \in RccRegs : stm32f4xx_rcc_read(AllZero(RccRegs), RccOffsetOf[r], 4).log = 0}

FlashResetRegs ==
    {r \in FlashRegs : stm32f4xx_flash_reset(AllZero(FlashRegs))[r]
                           = stm32f4xx_flash_reset(AllOnes(FlashRegs))[r]}

FlashWriteRegs ==
    {r \in FlashRegs :
        stm32f4xx_flash_write(AllZero(FlashRegs), FlashOffsetOf[r], WordBits, 4).s[r]
            # Zero}

FlashReadRegs ==
    {r \in FlashRegs :
        stm32f4xx_flash_read(AllZero(FlashRegs), FlashOffsetOf[r], 4).log = 0}

\* C18: the field list of vmstate_stm32f4xx_rcc (vmstate_stm32f4xx_flash)
\* names each register that reset, read and write handle, once, and nothing
\* else; so the saved state, loaded into a newly constructed block, gives
\* back every register of the state that was saved.
C18_VmstateCoversRegisters ==
    /\ FieldSet(vmstate_stm32f4xx_rcc) = RccResetRegs
    /\ FieldSet(vmstate_stm32f4xx_rcc) = RccWriteRegs
    /\ FieldSet(vmstate_stm32f4xx_rcc) = RccReadRegs
    /\ FieldSet(vmstate_stm32f4xx_rcc) = RccRegs
    /\ Cardinality(FieldSet(vmstate_stm32f4xx_rcc)) = Len(vmstate_stm32f4xx_rcc)
    /\ FieldSet(vmstate_stm32f4xx_flash) = FlashResetRegs
    /\ FieldSet(vmstate_stm32f4xx_flash) = FlashWriteRegs
    /\ FieldSet(vmstate_stm32f4xx_flash) = FlashReadRegs
    /\ FieldSet(vmstate_stm32f4xx_flash) = FlashRegs
    /\ Cardinality(FieldSet(vmstate_stm32f4xx_flash)) = Len(vmstate_stm32f4xx_flash)
    /\ vmstate_load(RccConstructed, vmstate_save(rcc, vmstate_stm32f4xx_rcc)) = rcc
    /\ vmstate_load(FlashConstructed, vmstate_save(flash, vmstate_stm32f4xx_flash))
           = flash

\* Both blocks hold values that are neither the constructed nor the reset
\* ones, in their last registers, and the saved streams carry them.
C18_Witness ==
    /\ rcc.rcc_dckcfgr # Zero
    /\ flash.flash_optcr1 \notin {Zero, FlashResetValue.flash_optcr1}
    /\ vmstate_save(rcc, vmstate_stm32f4xx_rcc)[21] = <<"rcc_dckcfgr", rcc.rcc_dckcfgr>>
    /\ vmstate_save(flash, vmstate_stm32f4xx_flash)[7]
           = <<"flash_optcr1", flash.flash_optcr1>>

\* Every chain of connections leaving device d ends at the CPU within k
\* hops: d is the CPU, or d has outputs connected and each connection leads
\* to a device whose chains end at the CPU within k - 1 hops.
RECURSIVE EndsAtCpuWithin(_, _)
EndsAtCpuWithin(d, k) ==
    \/ d = "cpu"
    \/ /\ k > 0
       /\ \E w \in wires : w.src.dev = d
       /\ \A w \in wires : w.src.dev = d => EndsAtCpuWithin(w.dst.dev, k - 1)

\* C19: at every point of the build no output of the CPU is connected
\* onward, and every chain of connections that starts at a connected output
\* ends at a CPU input within two hops (device -> OR gate or EXTI -> CPU);
\* so the connections have no cycle and the propagation of a level ends.
C19_WiringAcyclic ==
    /\ \A w \in wires : w.src.dev # "cpu"
    /\ \A w \in wires : EndsAtCpuWithin(w.src.dev, 2)
    /\ \A w \in wires : w.dst.dev = "cpu" => w.dst.n \in 0 .. NumIrq - 1

\* The SoC is built, a two-hop chain SYSCFG -> EXTI -> CPU exists, and a
\* level has travelled ADC -> OR gate -> CPU.
C19_Witness ==
    /\ pc = "done"
    /\ \E a, b \in wires :
          /\ a.src.dev = "syscfg" /\ a.dst.dev = "exti"
          /\ b.src.dev = "exti" /\ b.src.n = a.dst.n /\ b.dst.dev = "cpu"
    /\ cpu_in[ADC_IRQ] = 1

\* C20: a reset of one block leaves the other block's registers as they
\* are, so after the two resets, in either order, the RCC holds its reset
\* constants and the flash controller holds its own: the combined state is
\* the same for both orders.
C20_ResetOrderIndependent ==
    [][/\ last'.op = "rcc_reset" => flash' = flash
       /\ last'.op = "flash_reset" => rcc' = rcc
       /\ (\/ last.op = "rcc_reset" /\ last'.op = "flash_reset"
           \/ last.op = "flash_reset" /\ last'.op = "rcc_reset") =>
             /\ rcc' = RccResetValue
             /\ flash' = FlashResetValue]_vars

\* The flash controller was reset, then the RCC.
C20_Witness ==
    /\ last.op = "rcc_reset"
    /\ nops = 2
    /\ flash = FlashResetValue
    /\ rcc = RccResetValue

\* C21: a raise of RCC input irq that passes the gate sets bit irq of
\* RCC_CIR and changes no other bit of it.
C21_LatchSetsFlagBit ==
    [][(last'.op = "rcc_set_irq" /\ last'.level # 0 /\ last'.latched) =>
          rcc'.rcc_cir = rcc.rcc_cir \cup BIT(last'.irq)]_vars

\* The followed outputs connected directly to CPU input n.
DirectSources(n) ==
    {src \in DrivenSources :
        \E w \in wires : w.src = src /\ w.dst = [dev |-> "cpu", n |-> n]}

\* C22: once the SoC is built, each CPU input that several outputs are
\* connected to directly (23, 40 and 71) is at the OR of the levels those
\* outputs currently drive.
C22_SharedInputIsOr ==
    pc = "done" =>
        \A n \in {23, 40, 71} :
            cpu_in[n] = IF \E src \in DirectSources(n) : line[src] # 0
                        THEN 1 ELSE 0

\* C23: an event on an RCC interrupt input, at any level, changes no
\* register but RCC_CIR, clears no bit of RCC_CIR and changes none of its
\* enable bits (7..13) and clear bits (16..23); a read changes nothing.  So
\* a set flag stays set over interrupt events and reads.
C23_SetIrqFrame ==
    [][/\ last'.op = "rcc_set_irq" =>
             /\ \A r \in RccRegs \ {"rcc_cir"} : rcc'[r] = rcc[r]
             /\ rcc.rcc_cir \subseteq rcc'.rcc_cir
             /\ (rcc'.rcc_cir \ rcc.rcc_cir) \cap ((7 .. 13) \cup (16 .. 23)) = {}
             /\ flash' = flash
       /\ last'.op = "rcc_read" => rcc'.rcc_cir = rcc.rcc_cir]_vars

\* The clock-security input raised while RCC_CIR held the enable bit of
\* another event (bit 8): the latch ran and bit 8 is still set.
C23_Witness ==
    /\ last.op = "rcc_set_irq"
    /\ last.irq = RCC_IRQ_CSS
    /\ last.level = 1
    /\ last.latched
    /\ rcc.rcc_cir = {1, 2, 8}

\* C24: a lowering (level 0) of an RCC interrupt input, or of the flash
\* controller's, changes no register of either block, and still drives the
\* block's output line high then low, once, as a raise does.
C24_LoweringPulses ==
    [][(last'.op \in {"rcc_set_irq", "flash_set_irq"} /\ last'.level = 0) =>
          /\ rcc' = rcc
          /\ flash' = flash
          /\ ~last'.latched
          /\ last'.pulse = <<1, 0>>
          /\ rcc_irq' = 0
          /\ flash_irq' = 0]_vars

\* The clock-security input lowered while RCC_CIR holds enable bits and no
\* flag: a pulse, and RCC_CIR as it was.
C24_Witness ==
    /\ last.op = "rcc_set_irq"
    /\ last.irq = RCC_IRQ_CSS
    /\ last.level = 0
    /\ last.pulse = <<1, 0>>
    /\ rcc.rcc_cir = Word(\h0000, \h3F80)

\* C25: in every state, writing back to RCC_CR (to RCC_CFGR) the value a
\* read of it returns leaves the registers as they are: the stored value
\* is a fixed point of the write-path derivation.
C25_ReadModifyWriteStable ==
    /\ stm32f4xx_rcc_write(rcc, RCC_CR, RccReadBack(RCC_CR), 4).s = rcc
    /\ stm32f4xx_rcc_write(rcc, RCC_CFGR, RccReadBack(RCC_CFGR), 4).s = rcc

\* C26: a write at a register's offset changes, in the block written, no
\* register but the one at that offset, and changes no register of the
\* other block; this includes the writes to RCC_CR and RCC_CFGR, whose
\* derived bits are bits of the written register.
C26_WriteFrame ==
    [][/\ (last'.op = "rcc_write" /\ last'.addr \in RccOffsets) =>
             /\ \A r \in RccRegs \ {RccRegAt(last'.addr)} : rcc'[r] = rcc[r]
             /\ flash' = flash
       /\ (last'.op = "flash_write" /\ last'.addr \in FlashOffsets) =>
             /\ \A r \in FlashRegs \ {FlashRegAt(last'.addr)} : flash'[r] = flash[r]
             /\ rcc' = rcc]_vars

\* A write to RCC_CR that derived ready bits, while RCC_PLLCFGR holds the
\* value an earlier operation left.
C26_Witness ==
    /\ last.op = "rcc_write"
    /\ last.addr = RCC_CR
    /\ rcc.rcc_cr # last.val
    /\ rcc.rcc_pllcfgr # Zero
    /\ nops = 2

\* C27: a read or a write gives the same returned value, the same
\* diagnostic and the same resulting registers whichever of the sizes 1, 2
\* and 4 it is made with; a write of size bytes at a register's offset
\* leaves in the register what the zero-extended value alone determines,
\* whatever the register held, and no bit above the bytes written;
\* an access at offset 0x01 is an unknown offset.
C27_SizeIndependent ==
    [][/\ last'.op = "access_read" =>
             \A sz \in AccessSizes :
                /\ last'.region = <<"rcc", 0>> =>
                      stm32f4xx_rcc_read(rcc, last'.addr, sz)
                          = [ret |-> last'.ret, log |-> last'.log]
                /\ last'.region = <<"flash_r", 0>> =>
                      stm32f4xx_flash_read(flash, last'.addr, sz)
                          = [ret |-> last'.ret, log |-> last'.log]
       /\ last'.op = "access_write" =>
             /\ \A sz \in AccessSizes :
                   /\ last'.region = <<"rcc", 0>> =>
                         stm32f4xx_rcc_write(rcc, last'.addr, last'.val, sz)
                             = [s |-> rcc', log |-> last'.log]
                   /\ last'.region = <<"flash_r", 0>> =>
                         stm32f4xx_flash_write(flash, last'.addr, last'.val, sz)
                             = [s |-> flash', log |-> last'.log]
             /\ (last'.region = <<"rcc", 0>> /\ last'.addr \in RccOffsets) =>
                   /\ rcc'[RccRegAt(last'.addr)]
                         = stm32f4xx_rcc_write(RccResetValue, last'.addr,
                               last'.val, 4).s[RccRegAt(last'.addr)]
                   /\ rcc'[RccRegAt(last'.addr)] \subseteq 0 .. (8 * last'.size - 1)
             /\ (last'.region = <<"flash_r", 0>> /\ last'.addr \in FlashOffsets) =>
                   flash'[FlashRegAt(last'.addr)] = last'.val
       /\ (last'.op \in {"access_read", "access_write"} /\ last'.addr = 1) =>
             /\ last'.log = 1
             /\ last'.ret = Zero
             /\ rcc' = rcc
             /\ flash' = flash]_vars

\* A one-byte write of 0xA5 to RCC_CR right after a reset, which had left
\* 0x0000FF81 there: the register holds 0x000000A7.
C27_Witness ==
    /\ last.op = "access_write"
    /\ last.size = 1
    /\ last.region = <<"rcc", 0>>
    /\ last.addr = RCC_CR
    /\ nops = 2
    /\ rcc.rcc_pllcfgr = RccResetValue.rcc_pllcfgr
    /\ rcc.rcc_cr = Word(\h0000, \h00A7)

\* C28: the first step of realize decides on the clocks alone.  With refclk
\* wired by the board it fails with the refclk message, otherwise without
\* sysclk it fails with the sysclk message, and either failure leaves no
\* region in the system memory, no peripheral realized, no window mapped and
\* no interrupt output connected; only with refclk unwired and sysclk wired
\* does realize go on to its first building step, with no error set.
C28_ClocksCheckedFirst ==
    [][(pc = "created" /\ pc' # "created") =>
          /\ refclk_src =>
                /\ pc' = "failed"
                /\ errp' = "refclk clock must not be wired up by the board code"
          /\ (~refclk_src /\ ~sysclk_src) =>
                /\ pc' = "failed"
                /\ errp' = "sysclk clock must be wired up by the board code"
          /\ pc' = "failed" =>
                /\ mem' = {}
                /\ realized' = {}
                /\ mapped' = {}
                /\ wires' = {}
          /\ (~refclk_src /\ sysclk_src) =>
                /\ pc' = "flash"
                /\ errp' = ""
                /\ mem' = {}
                /\ realized' = {}
                /\ mapped' = {}
                /\ wires' = {}]_vars

\* Realize returned with the sysclk error, the board having wired neither
\* clock, and nothing is built.
C28_Witness ==
    /\ pc = "failed"
    /\ errp = "sysclk clock must be wired up by the board code"
    /\ ~sysclk_src
    /\ ~refclk_src
    /\ mem = {}
    /\ realized = {}
    /\ mapped = {}
    /\ wires = {}

====
